---- MODULE Spec2Model ----
(***************************************************************************)
(* Model of the SMS fraud-detection analyze handler (the POST handler of   *)
(* the /api/analyze route) with its helpers callMLService,                 *)
(* detectAndTranslate, safeJson, clamp01 and toAgentResult.                *)
(*                                                                         *)
(* One request is followed from the moment the handler is entered to the   *)
(* moment it returns a response or throws.  The handler is an async        *)
(* function: every `await` of an external call is a suspension point, so   *)
(* the handler is cut into one action per stretch of code between two      *)
(* awaits, and the external services (the translation model, the ML        *)
(* service, the four agent models, the decision model) are the environment *)
(* that settles each pending call with any outcome.                        *)
(*                                                                         *)
(* JavaScript values are tagged records: [t |-> "undefined"],              *)
(* [t |-> "null"], [t |-> "num", n |-> hundredths], [t |-> "nan"],         *)
(* [t |-> "str", s |-> identity, len |-> length], [t |-> "bool", b |-> _], *)
(* [t |-> "obj", o |-> record of fields].  Numbers are kept in hundredths  *)
(* (0.89 is 89), strings are abstracted to an identity and a length.       *)
(***************************************************************************)
EXTENDS Integers, FiniteSets, Sequences, TLC

VARIABLES
    body,          \* what req.json() yields for the request (or that it rejects)
    pc,            \* position of the handler
    call,          \* status of each external call of the request
    resp,          \* what each settled external call answered
    tl,            \* result of detectAndTranslate
    mlResult,      \* result of callMLService
    agents,        \* the agents object built from the four agent answers
    decisionUser,  \* the prompt handed to the decision model
    sent,          \* per external call, the arguments of every call issued
    response,      \* what the handler returned (or that it threw)
    fb             \* the feedback request sent about the result, and its answer

vars == <<body, pc, call, resp, tl, mlResult, agents, decisionUser, sent, response, fb>>

----------------------------------------------------------------------------
(* JavaScript values *)

Undef == [t |-> "undefined"]
Null == [t |-> "null"]
NaN == [t |-> "nan"]
Num(n) == [t |-> "num", n |-> n]
Str(s, l) == [t |-> "str", s |-> s, len |-> l]
Bool(b) == [t |-> "bool", b |-> b]
Obj(o) == [t |-> "obj", o |-> o]

\* v == null, v == undefined: what `??`, `?.` and `!= null` test
Nullish(v) == v.t \in {"undefined", "null"}

\* the `a ?? b` operator
Coalesce(a, b) == IF Nullish(a) THEN b ELSE a

\* the `v?.f` property read: undefined on null/undefined, on a primitive
\* without that property and on an object without that field
Get(v, f) ==
    IF v.t = "obj" /\ f \in DOMAIN v.o THEN v.o[f] ELSE Undef

\* ToBoolean: what `!v` and `v ? a : b` test
Truthy(v) ==
    CASE v.t = "undefined" -> FALSE
      [] v.t = "null" -> FALSE
      [] v.t = "nan" -> FALSE
      [] v.t = "num" -> v.n # 0
      [] v.t = "str" -> v.len > 0
      [] v.t = "bool" -> v.b
      [] OTHER -> TRUE

\* the typeof operator
TypeOf(v) ==
    CASE v.t = "undefined" -> "undefined"
      [] v.t = "null" -> "object"
      [] v.t \in {"num", "nan"} -> "number"
      [] v.t = "str" -> "string"
      [] v.t = "bool" -> "boolean"
      [] OTHER -> "object"

Arr(a) == [t |-> "arr", a |-> a]

\* ToNumber, as Math.min / Math.max apply it to a non-number argument.  A
\* string is numeric only when it spells a number: the string identities
\* "0.9" and "1.4" stand for such strings, every other non-empty string is NaN
ToNumber(v) ==
    CASE v.t = "num" -> v
      [] v.t = "nan" -> NaN
      [] v.t = "undefined" -> NaN
      [] v.t = "null" -> Num(0)
      [] v.t = "bool" -> IF v.b THEN Num(100) ELSE Num(0)
      [] v.t = "str" -> IF v.len = 0 THEN Num(0)
                        ELSE IF v.s = "0.9" THEN Num(90)
                        ELSE IF v.s = "1.4" THEN Num(140)
                        ELSE NaN
      [] OTHER -> NaN

----------------------------------------------------------------------------
(* lib/utils-local *)

\* The text an LLM call or an HTTP body carries is either JSON text, bare or
\* wrapped in a ``` code fence, or text that JSON.parse rejects
JsonText(v) == [kind |-> "json", fenced |-> FALSE, v |-> v]
FencedJsonText(v) == [kind |-> "json", fenced |-> TRUE, v |-> v]
Garbage == [kind |-> "garbage"]

\* JSON.parse of a text: the value it spells, or a SyntaxError; a text still
\* carrying its code fence is no JSON
JsonParses(raw) == raw.kind = "json" /\ ~raw.fenced

\* safeJson strips the code fences, trims and JSON.parses; null when
\* JSON.parse throws
StripFences(raw) ==
    IF raw.kind = "json" THEN [raw EXCEPT !.fenced = FALSE] ELSE raw

safeJson(raw) ==
    LET cleaned == StripFences(raw)
    IN  IF JsonParses(cleaned) THEN cleaned.v ELSE Null

\* clamp01: Number.isNaN is true of the number NaN only (it does not
\* coerce); Math.min and Math.max coerce their argument and yield NaN
\* when it is NaN
clamp01(n) ==
    IF n.t = "nan" THEN Num(0)
    ELSE LET x == ToNumber(n)
         IN  IF x.t = "nan" THEN NaN
             ELSE IF x.n > 100 THEN Num(100)
             ELSE IF x.n < 0 THEN Num(0)
             ELSE x

\* JSON.stringify, as NextResponse.json applies it to a number: NaN is
\* written as null
JsonNumber(v) == IF v.t = "nan" THEN Null ELSE v

----------------------------------------------------------------------------
(* app/api/analyze/route.ts: constants and pure parts *)

MAX_TEXT_LEN == 8000

\* how far around MAX_TEXT_LEN the request texts of the model reach
ExtraLen == 1

AgentKeys == {"content", "link", "sender", "context"}

Calls == {"translate", "ml", "decision"} \cup AgentKeys

\* AGENTS[key].name
AGENTS ==
    [content |-> "Content Analysis Agent",
     link |-> "Link Security Agent",
     sender |-> "Sender Verification Agent",
     context |-> "Context Awareness Agent"]

EmptyBody == Obj([text |-> Undef, detectionMethod |-> Undef])

\* `await req.json().catch(() => ({}))`
ParsedBody == IF JsonParses(body) THEN body.v ELSE EmptyBody

\* `body?.text ?? ""`
text == Coalesce(Get(ParsedBody, "text"), Str("", 0))

\* `body?.detectionMethod ?? "both"`
detectionMethod == Coalesce(Get(ParsedBody, "detectionMethod"), Str("both", 4))

\* the size test off by one: a text of exactly MAX_TEXT_LEN is refused
RejectsFromLimit(txt) ==
    \/ ~Truthy(txt)
    \/ TypeOf(txt) # "string"
    \/ txt.len >= MAX_TEXT_LEN

\* the guard of the 400 answer
Rejects(txt) ==
    \/ ~Truthy(txt)
    \/ TypeOf(txt) # "string"
    \/ txt.len > MAX_TEXT_LEN

UsesML == detectionMethod \in {Str("ml-only", 7), Str("both", 4)}

\* the agents run under the methods that run the classifier
UsesAgentsWithML == detectionMethod \in {Str("ml-only", 7), Str("both", 4)}

UsesAgents == detectionMethod \in {Str("agents-only", 11), Str("both", 4)}

Settled(c) == call[c] \in {"fulfilled", "rejected"}

\* detectAndTranslate with a fallback that calls the text English
detectAndTranslateEnglishFallback(status, res, txt) ==
    LET fallback == [language |-> Str("en", 2), translated |-> txt]
        parsed == safeJson(res)
    IN  IF status = "rejected" THEN fallback
        ELSE IF Truthy(parsed) /\ Truthy(Get(parsed, "translation"))
        THEN [language |-> Coalesce(Get(parsed, "language"), Str("unknown", 7)),
              translated |-> Get(parsed, "translation")]
        ELSE fallback

\* detectAndTranslate taking a translation only when a language comes with it
detectAndTranslateNeedsLanguage(status, res, txt) ==
    LET fallback == [language |-> Str("unknown", 7), translated |-> txt]
        parsed == safeJson(res)
    IN  IF status = "rejected" THEN fallback
        ELSE IF /\ Truthy(parsed) /\ Truthy(Get(parsed, "translation"))
                /\ Truthy(Get(parsed, "language"))
        THEN [language |-> Get(parsed, "language"),
              translated |-> Get(parsed, "translation")]
        ELSE fallback

\* what detectAndTranslate returns once its generateText call has settled
detectAndTranslate(status, res, txt) ==
    LET fallback == [language |-> Str("unknown", 7), translated |-> txt]
        parsed == safeJson(res)
    IN  IF status = "rejected" THEN fallback
        ELSE IF Truthy(parsed) /\ Truthy(Get(parsed, "translation"))
        THEN [language |-> Coalesce(Get(parsed, "language"), Str("unknown", 7)),
              translated |-> Get(parsed, "translation")]
        ELSE fallback

\* callMLService without its `if (!response.ok)` test: the body of an error
\* answer is returned as the prediction
callMLServiceAnyStatus(status, res) ==
    IF status = "rejected" THEN Null
    ELSE IF ~JsonParses(res.body) THEN Null
    ELSE res.body.v

\* what callMLService returns once its fetch has settled: null when fetch
\* rejects, when the status is not OK and when response.json() rejects
callMLService(status, res) ==
    IF status = "rejected" THEN Null
    ELSE IF ~res.ok THEN Null
    ELSE IF ~JsonParses(res.body) THEN Null
    ELSE res.body.v

\* a missing classification filled in as "unknown"
toAgentResultUnknownDefault(key, parsed) ==
    [key |-> key,
     name |-> AGENTS[key],
     score |-> clamp01(Coalesce(Get(parsed, "suspicionScore"),
                       Coalesce(Get(parsed, "score"),
                       Coalesce(Get(parsed, "confidence"), Num(50))))),
     classification |-> Coalesce(Get(parsed, "classification"), Str("unknown", 7)),
     language |-> Coalesce(Get(parsed, "language"), Undef),
     signals |-> Coalesce(Get(parsed, "signals"), Arr(<<>>)),
     features |-> Coalesce(Get(parsed, "features"), Arr(<<>>)),
     rationale |-> Coalesce(Get(parsed, "rationale"), Str("", 0)),
     mismatchExplanation |-> Coalesce(Get(parsed, "mismatchExplanation"), Undef)]

\* a missing mismatch explanation filled in with a generic one
toAgentResultSynthesized(key, parsed) ==
    [key |-> key,
     name |-> AGENTS[key],
     score |-> clamp01(Coalesce(Get(parsed, "suspicionScore"),
                       Coalesce(Get(parsed, "score"),
                       Coalesce(Get(parsed, "confidence"), Num(50))))),
     classification |-> Coalesce(Get(parsed, "classification"), Undef),
     language |-> Coalesce(Get(parsed, "language"), Undef),
     signals |-> Coalesce(Get(parsed, "signals"), Arr(<<>>)),
     features |-> Coalesce(Get(parsed, "features"), Arr(<<>>)),
     rationale |-> Coalesce(Get(parsed, "rationale"), Str("", 0)),
     mismatchExplanation |-> Coalesce(Get(parsed, "mismatchExplanation"),
                                      Str("unexplained disagreement", 24))]

\* missing signals, features and rationale left undefined
toAgentResultNoDefaults(key, parsed) ==
    [key |-> key,
     name |-> AGENTS[key],
     score |-> clamp01(Coalesce(Get(parsed, "suspicionScore"),
                       Coalesce(Get(parsed, "score"),
                       Coalesce(Get(parsed, "confidence"), Num(50))))),
     classification |-> Coalesce(Get(parsed, "classification"), Undef),
     language |-> Coalesce(Get(parsed, "language"), Undef),
     signals |-> Get(parsed, "signals"),
     features |-> Get(parsed, "features"),
     rationale |-> Get(parsed, "rationale"),
     mismatchExplanation |-> Coalesce(Get(parsed, "mismatchExplanation"), Undef)]

\* the older key `score` read before suspicionScore, the confidence first
toAgentResultConfidenceFirst(key, parsed) ==
    [key |-> key,
     name |-> AGENTS[key],
     score |-> clamp01(Coalesce(Get(parsed, "confidence"),
                       Coalesce(Get(parsed, "score"),
                       Coalesce(Get(parsed, "suspicionScore"), Num(50))))),
     classification |-> Coalesce(Get(parsed, "classification"), Undef),
     language |-> Coalesce(Get(parsed, "language"), Undef),
     signals |-> Coalesce(Get(parsed, "signals"), Arr(<<>>)),
     features |-> Coalesce(Get(parsed, "features"), Arr(<<>>)),
     rationale |-> Coalesce(Get(parsed, "rationale"), Str("", 0)),
     mismatchExplanation |-> Coalesce(Get(parsed, "mismatchExplanation"), Undef)]

\* the default score taken as 0 instead of 0.5
toAgentResultZeroDefault(key, parsed) ==
    [key |-> key,
     name |-> AGENTS[key],
     score |-> clamp01(Coalesce(Get(parsed, "suspicionScore"),
                       Coalesce(Get(parsed, "score"),
                       Coalesce(Get(parsed, "confidence"), Num(0))))),
     classification |-> Coalesce(Get(parsed, "classification"), Undef),
     language |-> Coalesce(Get(parsed, "language"), Undef),
     signals |-> Coalesce(Get(parsed, "signals"), Arr(<<>>)),
     features |-> Coalesce(Get(parsed, "features"), Arr(<<>>)),
     rationale |-> Coalesce(Get(parsed, "rationale"), Str("", 0)),
     mismatchExplanation |-> Coalesce(Get(parsed, "mismatchExplanation"), Undef)]

toAgentResult(key, parsed) ==
    [key |-> key,
     name |-> AGENTS[key],
     score |-> clamp01(Coalesce(Get(parsed, "suspicionScore"),
                       Coalesce(Get(parsed, "score"),
                       Coalesce(Get(parsed, "confidence"), Num(50))))),
     classification |-> Coalesce(Get(parsed, "classification"), Undef),
     language |-> Coalesce(Get(parsed, "language"), Undef),
     signals |-> Coalesce(Get(parsed, "signals"), Arr(<<>>)),
     features |-> Coalesce(Get(parsed, "features"), Arr(<<>>)),
     rationale |-> Coalesce(Get(parsed, "rationale"), Str("", 0)),
     mismatchExplanation |-> Coalesce(Get(parsed, "mismatchExplanation"), Undef)]

\* every entry built from the content agent's answer
BuildAgentsFromContent == [a \in AgentKeys |-> toAgentResult(a, safeJson(resp["content"]))]

\* the agents object built once Promise.all has resolved
BuildAgents == [a \in AgentKeys |-> toAgentResult(a, safeJson(resp[a]))]

\* `originalLanguage && originalLanguage !== 'en'`: whether the prompt
\* carries the instruction to downweight the ML result
translationCaveat(originalLanguage) ==
    Truthy(originalLanguage) /\ originalLanguage # Str("en", 2)

\* the ML part of the decision prompt
PromptML(ml) ==
    IF Truthy(ml)
    THEN Obj([prediction |-> Get(ml, "prediction"),
              confidence |-> Get(ml, "confidence"),
              is_fraud |-> Get(ml, "is_fraud"),
              probabilities |-> Get(ml, "probabilities")])
    ELSE Str("ML service unavailable", 22)

\* the agents part of the decision prompt
PromptAgents(ag) == IF ag # Null THEN ag ELSE Str("Not available", 13)

\* decisionUser: one of three templates; any detection method other than
\* "ml-only" and "agents-only" takes the last one
DecisionPrompt(originalLanguage, ml, ag) ==
    LET note == [originalLanguage |-> originalLanguage,
                 caveat |-> translationCaveat(originalLanguage)]
    IN  IF detectionMethod = Str("ml-only", 7)
        THEN [template |-> "ml-only", note |-> note, ml |-> PromptML(ml), agents |-> Undef]
        ELSE IF detectionMethod = Str("agents-only", 11)
        THEN [template |-> "agents-only", note |-> note, ml |-> Undef, agents |-> PromptAgents(ag)]
        ELSE [template |-> "both", note |-> note, ml |-> PromptML(ml), agents |-> PromptAgents(ag)]

\* the default taken when the decision text does not parse
DecisionFallback ==
    Obj([risk |-> Str("medium", 6),
         confidence |-> Num(50),
         explanation |-> Str("Insufficient structured output; defaulted to medium risk.", 57)])

\* the parsed decision taken without a default
parsedDecisionNoFallback(res) == safeJson(res)

\* `safeJson(decisionRes.text) ?? {...}`
parsedDecision(res) == Coalesce(safeJson(res), DecisionFallback)

\* the `overall` part of the result
Overall(pd) ==
    [risk |-> Get(pd, "risk"),
     confidence |-> IF ~Nullish(Get(pd, "confidence"))
                    THEN clamp01(Get(pd, "confidence")) ELSE Undef,
     explanation |-> Coalesce(Get(pd, "explanation"), Str("", 0))]

\* the `ml` part of the result
ResultML(ml) ==
    IF Truthy(ml)
    THEN [prediction |-> Get(ml, "prediction"),
          confidence |-> Get(ml, "confidence"),
          probabilities |-> Get(ml, "probabilities"),
          is_fraud |-> Get(ml, "is_fraud"),
          available |-> Bool(TRUE)]
    ELSE Null

\* a result whose input text is the translation
ResultTextReplaced(res) ==
    [input |-> [text |-> tl.translated,
                detectionMethod |-> detectionMethod,
                originalLanguage |-> tl.language,
                translatedText |-> tl.translated],
     ml |-> ResultML(mlResult),
     agents |-> agents,
     overall |-> Overall(parsedDecision(res))]

\* the AnalysisResult assembled at the end of the handler
Result(res) ==
    [input |-> [text |-> text,
                detectionMethod |-> detectionMethod,
                originalLanguage |-> tl.language,
                translatedText |-> tl.translated],
     ml |-> ResultML(mlResult),
     agents |-> agents,
     overall |-> Overall(parsedDecision(res))]

\* NextResponse.json(result): the numbers that can be NaN are written as null
Serialize(r) ==
    [r EXCEPT
       !.overall.confidence = JsonNumber(@),
       !.agents = IF @ = Null THEN @
                  ELSE [a \in AgentKeys |-> [@[a] EXCEPT !.score = JsonNumber(@)]]]

----------------------------------------------------------------------------
(* the requests and the answers of the external services *)

SmsText(l) == Str("sms", l)

TextLens == {1} \cup ((MAX_TEXT_LEN - ExtraLen) .. (MAX_TEXT_LEN + ExtraLen))

Methods == {Str("ml-only", 7), Str("agents-only", 11), Str("both", 4), Str("other", 5)}

\* request bodies: not JSON; JSON that is no object; objects without text, with
\* a text that is no string, with an empty text; texts around the size limit;
\* and an ordinary text under every detection method
Bodies ==
    {Garbage, JsonText(Null), JsonText(Num(5)), JsonText(EmptyBody)}
    \cup {JsonText(Obj([text |-> t, detectionMethod |-> Undef])) :
            t \in {Null, Str("", 0), Num(0), Num(5), Bool(TRUE), Obj([length |-> Num(500)])}}
    \cup {JsonText(Obj([text |-> SmsText(l), detectionMethod |-> Str("ml-only", 7)])) :
            l \in TextLens}
    \cup {JsonText(Obj([text |-> SmsText(1), detectionMethod |-> m])) : m \in Methods}
    \cup {JsonText(Obj([text |-> SmsText(1), detectionMethod |-> Undef]))}

English == Str("translation", 40)

\* texts the translation model may answer with
TranslateOutputs(txt) ==
    {Garbage,
     JsonText(Obj([language |-> Str("en", 2), translation |-> txt])),
     JsonText(Obj([language |-> Str("hi", 2), translation |-> English])),
     FencedJsonText(Obj([language |-> Undef, translation |-> English])),
     JsonText(Obj([language |-> Str("hi", 2), translation |-> Undef])),
     JsonText(Obj([language |-> Str("hi", 2), translation |-> Str("", 0)])),
     JsonText(Obj([language |-> Str("hi", 2), translation |-> Num(5)]))}

MLSpam ==
    Obj([prediction |-> Str("spam", 4), confidence |-> Num(89),
         probabilities |-> Obj([ham |-> Num(11), spam |-> Num(89)]),
         is_fraud |-> Bool(TRUE)])

\* an answer whose confidence and probabilities are no probabilities
MLOutOfRange ==
    Obj([prediction |-> Str("smishing", 8), confidence |-> Num(140),
         probabilities |-> Obj([ham |-> Num(-40), smishing |-> Num(140)]),
         is_fraud |-> Bool(TRUE)])

\* answers of the ML service to the fetch: an error status with an error
\* body, a 200 whose body is no JSON, and two predictions
FetchOutputs ==
    {[ok |-> FALSE, body |-> JsonText(Obj([detail |-> Str("Model not loaded", 16)]))],
     [ok |-> TRUE, body |-> Garbage],
     [ok |-> TRUE, body |-> JsonText(MLSpam)],
     [ok |-> TRUE, body |-> JsonText(MLOutOfRange)]}

AgentFull ==
    Obj([classification |-> Str("suspicious", 10), suspicionScore |-> Num(85),
         confidence |-> Num(90), signals |-> Arr(<<"urgency">>),
         features |-> Arr(<<"url">>), rationale |-> Str("pressure", 8)])

AgentSparse == Obj([suspicionScore |-> Num(140)])

\* texts an agent model may answer with
AgentOutputs == {Garbage, JsonText(AgentFull), FencedJsonText(AgentSparse)}

\* what an agent model may put under suspicionScore: nothing, null, numbers
\* below, inside and above [0,1] (in hundredths), and strings
RawScores ==
    {Undef, Null, Num(-20), Num(0), Num(40), Num(55), Num(70), Num(85),
     Num(100), Num(140), Str("high", 4), Str("0.9", 3)}

\* what an agent model may put under classification
RawClassifications ==
    {Undef, Str("benign", 6), Str("suspicious", 10), Str("unknown", 7)}

\* what an agent model may put under mismatchExplanation
RawMismatches == {Undef, Str("sender is known", 15)}

\* an agent answer following AGENT_OUTPUT_SCHEMA, fields left out or not
AgentAnswer(c, s, m) ==
    Obj([classification |-> c, suspicionScore |-> s, mismatchExplanation |-> m,
         confidence |-> Num(90), signals |-> Arr(<<"urgency">>),
         features |-> Arr(<<"url">>), rationale |-> Str("pressure", 8)])

\* answers that use the older `score` key or only a confidence
AgentLegacy ==
    {Obj([score |-> Num(85)]),
     Obj([confidence |-> Num(30)]),
     Obj([score |-> Num(85), confidence |-> Num(30)]),
     Obj([suspicionScore |-> Num(20), score |-> Num(85)])}

\* texts an agent model may answer with, over all values of the judgment
\* fields
RichAgentOutputs ==
    {Garbage}
    \cup {JsonText(o) : o \in AgentLegacy}
    \cup {JsonText(AgentAnswer(c, s, m)) :
            c \in RawClassifications, s \in RawScores, m \in RawMismatches}

\* texts the decision model may answer with
DecisionOutputs ==
    {Garbage,
     JsonText(Null),
     JsonText(Obj([risk |-> Str("high", 4), confidence |-> Num(93),
                   explanation |-> Str("ML and agents agree", 19)])),
     FencedJsonText(Obj([risk |-> Str("low", 3), confidence |-> Num(140),
                         explanation |-> Undef])),
     JsonText(Obj([risk |-> Str("critical", 8), confidence |-> Undef,
                   explanation |-> Str("no such level", 13)]))}

----------------------------------------------------------------------------
(* the handler *)

\* a call that has not answered has no text; the handler has not answered yet
NoAnswer == [kind |-> "none"]
NoResponse == [kind |-> "none"]

NoFeedback == [kind |-> "none"]

Init ==
    /\ body \in Bodies
    /\ pc = "received"
    /\ call = [c \in Calls |-> "idle"]
    /\ resp = [c \in Calls |-> NoAnswer]
    /\ tl = Undef
    /\ mlResult = Null
    /\ agents = Null
    /\ decisionUser = Undef
    /\ sent = [c \in Calls |-> <<>>]
    /\ response = NoResponse
    /\ fb = NoFeedback

\* an exception that leaves the handler
Thrown == [kind |-> "thrown"]

Throw ==
    /\ response' = Thrown
    /\ pc' = "done"

\* the prompt of the translation call embeds the request text
TranslatePrompt(txt) == [text |-> txt]

\* the body of the POST to the ML service: the translated text, with the
\* original text and the language when they are truthy
MLPayload(t, txt) ==
    [text |-> t.translated,
     original_text |-> IF Truthy(txt) THEN txt ELSE Undef,
     language |-> IF Truthy(t.language) THEN t.language ELSE Undef]

\* the prompt of an agent call carries agentText: the translated text and
\* the original text
AgentPrompt(a, t, txt) ==
    [agent |-> a, translatedEnglish |-> t.translated, originalText |-> txt]

\* the Promise.all over the four generateText calls is created: all four
\* calls are issued
DispatchAgents(t) ==
    /\ call' = [c \in Calls |-> IF c \in AgentKeys THEN "pending" ELSE call[c]]
    /\ sent' = [c \in Calls |-> IF c \in AgentKeys
                                 THEN Append(sent[c], AgentPrompt(c, t, text))
                                 ELSE sent[c]]
    /\ pc' = "agents"
    /\ UNCHANGED <<agents, decisionUser, response>>

\* the agents are converted (ag), the decision prompt is built and the
\* decision call is issued
DispatchDecision(originalLanguage, ml, ag) ==
    /\ agents' = ag
    /\ decisionUser' = DecisionPrompt(originalLanguage, ml, ag)
    /\ call' = [call EXCEPT !["decision"] = "pending"]
    /\ sent' = [sent EXCEPT !["decision"] = Append(@, decisionUser')]
    /\ pc' = "deciding"
    /\ UNCHANGED response

\* the 400 answer without its `return`: the handler goes on to translate
ValidateWithoutReturn ==
    /\ pc = "received"
    /\ response' = IF Rejects(text)
                   THEN [kind |-> "json", status |-> 400,
                         json |-> Str("Provide SMS text (<= 8000 chars)", 32)]
                   ELSE response
    /\ call' = [call EXCEPT !["translate"] = "pending"]
    /\ sent' = [sent EXCEPT !["translate"] = Append(@, TranslatePrompt(text))]
    /\ pc' = "normalizing"
    /\ UNCHANGED <<body, fb, resp, tl, mlResult, agents, decisionUser>>

\* POST up to its first external call: the body is read, the text is
\* validated, and detectAndTranslate issues its generateText call
Validate ==
    /\ pc = "received"
    /\ IF Rejects(text)
       THEN /\ response' = [kind |-> "json", status |-> 400,
                            json |-> Str("Provide SMS text (<= 8000 chars)", 32)]
            /\ pc' = "done"
            /\ UNCHANGED <<call, sent>>
       ELSE /\ call' = [call EXCEPT !["translate"] = "pending"]
            /\ sent' = [sent EXCEPT !["translate"] = Append(@, TranslatePrompt(text))]
            /\ pc' = "normalizing"
            /\ UNCHANGED response
    /\ UNCHANGED <<body, fb, resp, tl, mlResult, agents, decisionUser>>

\* the translation model answers or fails
TranslateSettles ==
    /\ call["translate"] = "pending"
    /\ \/ /\ call' = [call EXCEPT !["translate"] = "rejected"]
          /\ UNCHANGED resp
       \/ \E out \in TranslateOutputs(text) :
             /\ call' = [call EXCEPT !["translate"] = "fulfilled"]
             /\ resp' = [resp EXCEPT !["translate"] = out]
    /\ UNCHANGED <<body, fb, pc, tl, mlResult, agents, decisionUser, sent, response>>

\* detectAndTranslate returns; POST extracts the URLs (translatedText.match
\* throws when the translation is no string), builds the agent prompts and
\* issues the first collector call of the detection method
AfterTranslate ==
    /\ pc = "normalizing"
    /\ Settled("translate")
    /\ tl' = detectAndTranslate(call["translate"], resp["translate"], text)
    /\ IF TypeOf(tl'.translated) # "string"
       THEN Throw /\ UNCHANGED <<call, agents, decisionUser, sent>>
       ELSE IF UsesML
       THEN /\ call' = [call EXCEPT !["ml"] = "pending"]
            /\ sent' = [sent EXCEPT !["ml"] = Append(@, MLPayload(tl', text))]
            /\ pc' = "ml"
            /\ UNCHANGED <<agents, decisionUser, response>>
       ELSE IF UsesAgents
       THEN DispatchAgents(tl')
       ELSE DispatchDecision(tl'.language, mlResult, Null)
    /\ UNCHANGED <<body, fb, resp, mlResult>>

\* the ML service answers or is unreachable
MLSettles ==
    /\ call["ml"] = "pending"
    /\ \/ /\ call' = [call EXCEPT !["ml"] = "rejected"]
          /\ UNCHANGED resp
       \/ \E out \in FetchOutputs :
             /\ call' = [call EXCEPT !["ml"] = "fulfilled"]
             /\ resp' = [resp EXCEPT !["ml"] = out]
    /\ UNCHANGED <<body, fb, pc, tl, mlResult, agents, decisionUser, sent, response>>

\* a handler that calls the ML service a second time when the first call
\* gave nothing
AfterMLRetry ==
    /\ pc = "ml"
    /\ Settled("ml")
    /\ IF callMLService(call["ml"], resp["ml"]) = Null /\ Len(sent["ml"]) < 2
       THEN /\ call' = [call EXCEPT !["ml"] = "pending"]
            /\ sent' = [sent EXCEPT !["ml"] = Append(@, MLPayload(tl, text))]
            /\ UNCHANGED <<pc, mlResult, agents, decisionUser, response>>
       ELSE /\ mlResult' = callMLService(call["ml"], resp["ml"])
            /\ IF UsesAgents
               THEN DispatchAgents(tl)
               ELSE DispatchDecision(tl.language, mlResult', Null)
    /\ UNCHANGED <<body, fb, resp, tl>>

\* `mlResult = await callMLService(...)` returns; only then are the agent
\* calls issued
AfterML ==
    /\ pc = "ml"
    /\ Settled("ml")
    /\ mlResult' = callMLService(call["ml"], resp["ml"])
    /\ IF UsesAgents
       THEN DispatchAgents(tl)
       ELSE DispatchDecision(tl.language, mlResult', Null)
    /\ UNCHANGED <<body, fb, resp, tl>>

\* an agent model answers or fails
AgentSettles(a) ==
    /\ call[a] = "pending"
    /\ \/ /\ call' = [call EXCEPT ![a] = "rejected"]
          /\ UNCHANGED resp
       \/ \E out \in AgentOutputs :
             /\ call' = [call EXCEPT ![a] = "fulfilled"]
             /\ resp' = [resp EXCEPT ![a] = out]
    /\ UNCHANGED <<body, fb, pc, tl, mlResult, agents, decisionUser, sent, response>>

\* a race instead of a join: resolved with the first fulfilled call
PromiseFirstResolved == \E a \in AgentKeys : call[a] = "fulfilled"

\* Promise.all resolves: all four calls are fulfilled
PromiseAllResolved == \A a \in AgentKeys : call[a] = "fulfilled"

\* Promise.all rejects: as soon as one call is rejected
PromiseAllRejected == \E a \in AgentKeys : call[a] = "rejected"

\* `await Promise.all([...])` returns the four answers
AgentsResolve ==
    /\ pc = "agents"
    /\ PromiseAllResolved
    /\ DispatchDecision(tl.language, mlResult, BuildAgents)
    /\ UNCHANGED <<body, fb, resp, tl, mlResult>>

\* `await Promise.all([...])` throws: nothing in POST catches it
AgentsReject ==
    /\ pc = "agents"
    /\ PromiseAllRejected
    /\ Throw
    /\ UNCHANGED <<body, fb, call, resp, tl, mlResult, agents, decisionUser, sent>>

\* the decision model answers or fails
DecisionSettles ==
    /\ call["decision"] = "pending"
    /\ \/ /\ call' = [call EXCEPT !["decision"] = "rejected"]
          /\ UNCHANGED resp
       \/ \E out \in DecisionOutputs :
             /\ call' = [call EXCEPT !["decision"] = "fulfilled"]
             /\ resp' = [resp EXCEPT !["decision"] = out]
    /\ UNCHANGED <<body, fb, pc, tl, mlResult, agents, decisionUser, sent, response>>

\* `await generateText(...)` of the decision returns or throws (nothing in
\* POST catches it); the result is assembled and answered with status 200
AfterDecision ==
    /\ pc = "deciding"
    /\ Settled("decision")
    /\ IF call["decision"] = "rejected"
       THEN Throw
       ELSE /\ response' = [kind |-> "json", status |-> 200,
                            json |-> Serialize(Result(resp["decision"]))]
            /\ pc' = "done"
    /\ UNCHANGED <<body, fb, call, resp, tl, mlResult, agents, decisionUser, sent>>

Next ==
    \/ Validate
    \/ TranslateSettles
    \/ AfterTranslate
    \/ MLSettles
    \/ AfterML
    \/ \E a \in AgentKeys : AgentSettles(a)
    \/ AgentsResolve
    \/ AgentsReject
    \/ DecisionSettles
    \/ AfterDecision

Spec == Init /\ [][Next]_vars

----------------------------------------------------------------------------
(* app/api/feedback/route.ts *)

\* what the client may send under `correct`
FeedbackCorrect == {Bool(TRUE), Bool(FALSE), Undef, Str("yes", 3)}

\* the feedback handler: 400 unless `correct` is a boolean and `analysis` is
\* given; then the log entry is built, where Object.entries throws a
\* TypeError on an `agents` that is null; then { ok: true }
FeedbackPOST(payload) ==
    IF TypeOf(payload.correct) # "boolean" \/ payload.analysis = Undef
    THEN [kind |-> "json", status |-> 400, json |-> [error |-> "Invalid payload"]]
    ELSE IF payload.analysis.agents = Null
    THEN Thrown
    ELSE [kind |-> "json", status |-> 200, json |-> [ok |-> TRUE]]

\* the client sends feedback about the result it was returned
PostFeedback ==
    /\ response.kind = "json" /\ response.status = 200
    /\ fb = NoFeedback
    /\ \E c \in FeedbackCorrect, a \in {Undef, response.json} :
          LET payload == [correct |-> c, analysis |-> a]
          IN  fb' = [kind |-> "feedback", payload |-> payload,
                     answer |-> FeedbackPOST(payload)]
    /\ UNCHANGED <<body, pc, call, resp, tl, mlResult, agents, decisionUser, sent, response>>

NextFeedback ==
    \/ Next
    \/ PostFeedback

SpecFeedback == Init /\ [][NextFeedback]_vars

----------------------------------------------------------------------------
(* scheduling *)

\* the steps of the handler itself: the event loop runs the handler whenever
\* the promise it awaits has settled
HandlerStep ==
    \/ Validate
    \/ AfterTranslate
    \/ AfterML
    \/ AgentsResolve
    \/ AgentsReject
    \/ AfterDecision

\* the handler always runs when it can; nothing makes an external service
\* answer: no call carries a timeout or an abort signal
SpecFair == Spec /\ WF_vars(HandlerStep)

----------------------------------------------------------------------------
(* the agents-only request, over all the judgments an agent can report *)

AgentsOnlyBodies ==
    {JsonText(Obj([text |-> SmsText(1), detectionMethod |-> Str("agents-only", 11)]))}

InitAgents ==
    /\ body \in AgentsOnlyBodies
    /\ pc = "received"
    /\ call = [c \in Calls |-> "idle"]
    /\ resp = [c \in Calls |-> NoAnswer]
    /\ tl = Undef
    /\ mlResult = Null
    /\ agents = Null
    /\ decisionUser = Undef
    /\ sent = [c \in Calls |-> <<>>]
    /\ response = NoResponse
    /\ fb = NoFeedback

\* the content agent's model answers or fails
ContentAgentSettles ==
    /\ call["content"] = "pending"
    /\ \/ /\ call' = [call EXCEPT !["content"] = "rejected"]
          /\ UNCHANGED resp
       \/ \E out \in RichAgentOutputs :
             /\ call' = [call EXCEPT !["content"] = "fulfilled"]
             /\ resp' = [resp EXCEPT !["content"] = out]
    /\ UNCHANGED <<body, fb, pc, tl, mlResult, agents, decisionUser, sent, response>>

NextAgents ==
    \/ Validate
    \/ TranslateSettles
    \/ AfterTranslate
    \/ ContentAgentSettles
    \/ \E a \in AgentKeys \ {"content"} : AgentSettles(a)
    \/ AgentsResolve
    \/ AgentsReject
    \/ DecisionSettles
    \/ AfterDecision

SpecAgents == InitAgents /\ [][NextAgents]_vars

----------------------------------------------------------------------------
(* vocabulary of the properties *)

Collectors == {"ml"} \cup AgentKeys

\* the handler answered 200 with an AnalysisResult
Returned == response.kind = "json" /\ response.status = 200

\* the handler answered 400
Rejected == response.kind = "json" /\ response.status = 400

\* the request names one of the three detection methods and has a valid text
ValidRequest ==
    /\ ~Rejects(text)
    /\ detectionMethod \in {Str("ml-only", 7), Str("agents-only", 11), Str("both", 4)}

\* an agent that gave no structured output: its call failed, or its text
\* does not parse
AgentUnavailable(a) ==
    \/ call[a] = "rejected"
    \/ call[a] = "fulfilled" /\ safeJson(resp[a]) = Null

----------------------------------------------------------------------------
(* C1 *)

\* C1: every request that passes validation ends with an AnalysisResult,
\* whatever the evidence sources did: once the handler has finished a request
\* whose normalization and decision calls did not stand in the way, it has
\* answered 200 with a result that carries a verdict.
C1_ResultDespiteSourceFailure ==
    (/\ pc = "done"
     /\ ValidRequest
     /\ TypeOf(tl.translated) = "string"
     /\ call["decision"] # "rejected")
    => (Returned /\ "overall" \in DOMAIN response.json)

----------------------------------------------------------------------------
(* C2 *)

Risks == {Str("low", 3), Str("medium", 6), Str("high", 4)}

\* C2: for every valid request, the verdict of a returned result has a risk
\* among low, medium, high, and a confidence that is absent or within [0,1].
C2_VerdictInRange ==
    (Returned /\ ValidRequest)
    => /\ response.json.overall.risk \in Risks
       /\ LET c == response.json.overall.confidence
          IN  c = Undef \/ (c.t = "num" /\ c.n >= 0 /\ c.n <= 100)

----------------------------------------------------------------------------
(* C3 *)

\* the text field as the request body spells it
BodyTextField ==
    IF body.kind = "json" /\ body.v.t = "obj" THEN body.v.o.text ELSE Undef

\* the text is missing or empty, is no string, or is longer than 8000
BadText ==
    LET f == BodyTextField
    IN  f.t # "str" \/ f.len = 0 \/ f.len > 8000

\* C3: once the request has been validated, the answer is a 400 exactly when
\* the text is missing, empty, no string or longer than 8000 characters; a
\* body that is no JSON is answered 400 like an empty body, never thrown.
C3_RejectsExactlyBadText ==
    pc # "received"
    => /\ Rejected <=> BadText
       /\ body.kind = "garbage" => Rejected

\* a text of exactly 8000 characters went through validation
C3_Witness ==
    /\ BodyTextField.t = "str"
    /\ BodyTextField.len = 8000
    /\ pc = "normalizing"
    /\ ~Rejected

----------------------------------------------------------------------------
(* C4 *)

\* C4: a request answered 400 has issued no external call: no translation
\* call, no classifier call, no agent call, no decision call.
C4_RejectedIssuesNoCall ==
    Rejected => \A c \in Calls : call[c] = "idle"

\* a request was rejected and the handler is done with it
C4_Witness == Rejected /\ pc = "done" /\ BadText

----------------------------------------------------------------------------
(* C5 *)

\* the Collecting stage of the request is over: the handler has moved past
\* the await of the agent calls it issued
CollectingOver ==
    /\ pc \in {"deciding", "done"}
    /\ \E a \in AgentKeys : call[a] # "idle"

\* C5: the Collecting stage is over only when every collector call that was
\* issued has settled: a failed collector neither ends the stage early nor
\* has the answers of the others dropped.
C5_StageWaitsForAll ==
    CollectingOver
    => /\ \A c \in Collectors : call[c] # "pending"
       /\ (\A a \in AgentKeys : call[a] = "fulfilled") => agents # Null

----------------------------------------------------------------------------
(* C6 *)

\* C6: under detection method both the five collector calls are issued
\* together: whenever the classifier call has been issued, so have the four
\* agent calls (no agent call waits for the classifier call to settle).
C6_AllFiveIssuedTogether ==
    (detectionMethod = Str("both", 4) /\ call["ml"] # "idle")
    => \A a \in AgentKeys : call[a] # "idle"

----------------------------------------------------------------------------
(* C7 *)

\* C7: no collector call is issued before the normalization call has returned
\* (detectAndTranslate has produced tl), and the decision call is not issued
\* before every collector call that was issued has settled and its answer has
\* been converted (mlResult for the classifier, an agents entry per agent).
C7_StagesInOrder ==
    /\ (\E c \in Collectors : call[c] # "idle")
       => (Settled("translate") /\ tl # Undef)
    /\ call["decision"] # "idle"
       => /\ \A c \in Collectors : call[c] # "pending"
          /\ call["ml"] # "idle"
             => mlResult = callMLService(call["ml"], resp["ml"])
          /\ \A a \in AgentKeys :
                call[a] # "idle"
                => /\ agents # Null
                   /\ agents[a] = toAgentResult(a, safeJson(resp[a]))

\* the decision call is in flight after the classifier and the four agents
\* have answered
C7_Witness ==
    /\ call["decision"] = "pending"
    /\ call["ml"] = "fulfilled"
    /\ \A a \in AgentKeys : call[a] = "fulfilled"

----------------------------------------------------------------------------
(* C8 *)

\* explanations that say that the structured output was insufficient
InsufficientExplanations ==
    {Str("Insufficient structured output; defaulted to medium risk.", 57)}

\* the classifier and the four agents were all called and none of them gave
\* usable output
AllFiveUnavailable ==
    /\ detectionMethod = Str("both", 4)
    /\ Settled("ml")
    /\ ~Truthy(mlResult)
    /\ \A a \in AgentKeys : AgentUnavailable(a)

\* C8: when all five collectors are unavailable, the request ends with the
\* verdict risk medium, confidence absent, and an explanation that says
\* "insufficient".
C8_TotalFailureVerdict ==
    (pc = "done" /\ AllFiveUnavailable /\ call["decision"] # "rejected")
    => /\ Returned
       /\ response.json.overall.risk = Str("medium", 6)
       /\ response.json.overall.confidence = Undef
       /\ response.json.overall.explanation \in InsufficientExplanations

----------------------------------------------------------------------------
(* C9 *)

\* the decision prompt carries no agent evidence
NoAgentEvidence(prompt) ==
    prompt.agents \in {Undef, Str("Not available", 13)}

\* C9: under detection method both, when the classifier answered and the four
\* agents are all unavailable, the request still ends with a result; its
\* verdict comes from a fusion over the classifier output alone, and no agent
\* is reported as having given evidence.
C9_ClassifierAloneVerdict ==
    (/\ pc = "done"
     /\ detectionMethod = Str("both", 4)
     /\ Truthy(mlResult)
     /\ \A a \in AgentKeys : AgentUnavailable(a)
     /\ call["decision"] # "rejected")
    => /\ Returned
       /\ decisionUser.ml # Str("ML service unavailable", 22)
       /\ NoAgentEvidence(decisionUser)
       /\ response.json.agents = Null

----------------------------------------------------------------------------
(* C10 *)

\* the agent's text was received and does not parse
Unparsable(a) == call[a] = "fulfilled" /\ safeJson(resp[a]) = Null

\* the entry that stands for an agent without parsed output
Placeholder(a) ==
    [key |-> a, name |-> AGENTS[a], score |-> Num(50),
     classification |-> Undef, language |-> Undef,
     signals |-> Arr(<<>>), features |-> Arr(<<>>),
     rationale |-> Str("", 0), mismatchExplanation |-> Undef]

----------------------------------------------------------------------------
(* C11 *)

\* the classifier call was unreachable or threw (the fetch rejected), or was
\* answered with a status that is not OK
MLFailed ==
    \/ call["ml"] = "rejected"
    \/ call["ml"] = "fulfilled" /\ ~resp["ml"].ok

\* callMLService has returned
PastML == call["ml"] # "idle" /\ pc \notin {"normalizing", "ml"}

\* C11: once callMLService has returned from a failed classifier call, the
\* classifier output is null (unavailable) and the handler did not throw
\* there: the four agent calls have been issued when the method uses the
\* agents, the decision call has been issued at once when it does not, and
\* the decision call is issued with the classifier marked unavailable as
\* soon as the handler has left the agent stage without an exception.
C11_MLFailureAbsorbed ==
    (MLFailed /\ PastML)
    => /\ mlResult = Null
       /\ UsesAgents => \A a \in AgentKeys : call[a] # "idle"
       /\ ~UsesAgents => call["decision"] # "idle"
       /\ response = Thrown
          => (PromiseAllRejected \/ call["decision"] = "rejected")
       /\ call["decision"] # "idle"
          => decisionUser.ml = Str("ML service unavailable", 22)

\* under method both the classifier answered with an error status, the agents
\* were called and the decision call was issued
C11_Witness ==
    /\ call["ml"] = "fulfilled" /\ ~resp["ml"].ok
    /\ detectionMethod = Str("both", 4)
    /\ PromiseAllResolved
    /\ pc = "deciding"

----------------------------------------------------------------------------
(* C12 *)

\* C12: when the detection method asked for the classifier and the
\* classifier was unreachable, the returned result has an ml field that says
\* so (available = false) instead of the null of a request that did not use
\* the classifier.
C12_UnreachableMarkedUnavailable ==
    (Returned /\ UsesML /\ call["ml"] = "rejected")
    => /\ response.json.ml # Null
       /\ response.json.ml.available = Bool(FALSE)

----------------------------------------------------------------------------
(* C13 *)

\* what the agent's answer carries under suspicionScore
RawScore(a) == Get(safeJson(resp[a]), "suspicionScore")

\* C13: in a returned result the score of every agent lies within [0,1]
\* whatever the agent answered, and when the answer carries a suspicion score
\* the result's score is that value clamped: 1 above 1, 0 below 0, the value
\* itself inside the range.
C13_ScoreClamped ==
    (Returned /\ response.json.agents # Null)
    => \A a \in AgentKeys :
          LET s == response.json.agents[a].score
              raw == RawScore(a)
          IN  /\ s.t = "num"
              /\ s.n >= 0 /\ s.n <= 100
              /\ raw.t = "num" =>
                    s.n = (IF raw.n > 100 THEN 100 ELSE IF raw.n < 0 THEN 0 ELSE raw.n)

----------------------------------------------------------------------------
(* C14 *)

\* a number within [0,1]
InUnit(v) == v.t = "num" /\ v.n >= 0 /\ v.n <= 100

\* C14: in a returned result the verdict's confidence (when present), every
\* agent's score, the classifier's confidence and each of the classifier's
\* class probabilities lie within [0,1], whatever the services answered.
C14_AllScoresInUnit ==
    Returned
    => LET r == response.json
       IN  /\ r.overall.confidence = Undef \/ InUnit(r.overall.confidence)
           /\ r.agents # Null => \A a \in AgentKeys : InUnit(r.agents[a].score)
           /\ r.ml # Null =>
                 /\ InUnit(r.ml.confidence)
                 /\ r.ml.probabilities.t = "obj" =>
                       \A k \in DOMAIN r.ml.probabilities.o :
                           InUnit(r.ml.probabilities.o[k])

----------------------------------------------------------------------------
(* C15 *)

\* the judgment a score implies under the thresholds 0.7 and 0.4
Implied(score) ==
    IF score.t # "num" THEN Str("unknown", 7)
    ELSE IF score.n >= 70 THEN Str("suspicious", 10)
    ELSE IF score.n <= 40 THEN Str("benign", 6)
    ELSE Str("unknown", 7)

\* the agent's answer parsed, and what it carries under a key
Parsed(a) == safeJson(resp[a])
Answered(a) == call[a] = "fulfilled" /\ Parsed(a).t = "obj"

\* the agent answered with structured output that reports no judgment
NoJudgment(a) == Answered(a) /\ Nullish(Get(Parsed(a), "classification"))

----------------------------------------------------------------------------
(* C16 *)

\* the agent reported a judgment that is not the one its score in the
\* result implies
Mismatch(a) ==
    /\ Answered(a)
    /\ ~NoJudgment(a)
    /\ Get(Parsed(a), "classification") # Implied(response.json.agents[a].score)

----------------------------------------------------------------------------
(* C17 *)

\* the detection call failed, or its text does not parse
NormalizeFailed ==
    \/ call["translate"] = "rejected"
    \/ call["translate"] = "fulfilled" /\ safeJson(resp["translate"]) = Null

\* the handler has left the normalizing stage
PastNormalizing == call["translate"] # "idle" /\ pc # "normalizing"

\* C17: once the handler has left the normalizing stage, detectAndTranslate
\* has returned a language and a text (it did not throw); when its detection
\* call failed or answered text that does not parse, the language is
\* "unknown" and the normalized text is the request text, and the handler
\* went on: it issued the first call of the detection method, and an
\* exception, if any, comes from the agent or the decision calls.
C17_NormalizerAbsorbsFailure ==
    PastNormalizing
    => /\ tl # Undef
       /\ DOMAIN tl = {"language", "translated"}
       /\ NormalizeFailed
          => /\ tl.language = Str("unknown", 7)
             /\ tl.translated = text
             /\ UsesML => call["ml"] # "idle"
             /\ (~UsesML /\ UsesAgents) => \A a \in AgentKeys : call[a] # "idle"
             /\ (~UsesML /\ ~UsesAgents) => call["decision"] # "idle"
             /\ response = Thrown
                => (PromiseAllRejected \/ call["decision"] = "rejected")

\* a result was returned for a request whose detection call answered text
\* that does not parse
C17_Witness ==
    /\ Returned
    /\ call["translate"] = "fulfilled"
    /\ safeJson(resp["translate"]) = Null
    /\ response.json.input.originalLanguage = Str("unknown", 7)

----------------------------------------------------------------------------
(* C18 *)

\* the detection call answered a translation
Translated ==
    /\ call["translate"] = "fulfilled"
    /\ Truthy(safeJson(resp["translate"]))
    /\ Truthy(Get(safeJson(resp["translate"]), "translation"))

\* the language the detection call reported, "unknown" without one
DetectedLanguage ==
    IF Translated
    THEN Coalesce(Get(safeJson(resp["translate"]), "language"), Str("unknown", 7))
    ELSE Str("unknown", 7)

\* the translation the detection call answered, the request text without one
NormalizedText ==
    IF Translated THEN Get(safeJson(resp["translate"]), "translation")
    ELSE BodyTextField

\* C18: the input section of every returned result carries the text of the
\* request as it was sent (never its translation), the language the
\* detection call reported and the normalized text; and every call of the
\* classifier was made with the normalized text.
C18_InputKeepsOriginal ==
    /\ Returned
       => /\ response.json.input.text = BodyTextField
          /\ response.json.input.originalLanguage = DetectedLanguage
          /\ response.json.input.translatedText = NormalizedText
    /\ \A k \in 1..Len(sent["ml"]) :
          /\ sent["ml"][k].text = NormalizedText
          /\ sent["ml"][k].original_text = BodyTextField

\* a result was returned for a message detected as Hindi, after the
\* classifier was called with the translation
C18_Witness ==
    /\ Returned
    /\ response.json.input.originalLanguage = Str("hi", 2)
    /\ response.json.input.translatedText = English
    /\ response.json.input.text # English
    /\ Len(sent["ml"]) = 1
    /\ sent["ml"][1].text = English

----------------------------------------------------------------------------
(* C19 *)

\* the call was never issued
NeverCalled(c) == call[c] = "idle" /\ sent[c] = <<>>

\* C19: under ml-only no agent call is ever issued and a returned result has
\* agents = null; under agents-only no classifier call is ever issued and a
\* returned result has ml = null; under both, the classifier and the four
\* agents have all been called by the time the decision call is issued.
C19_MethodSelectsSources ==
    /\ detectionMethod = Str("ml-only", 7)
       => /\ \A a \in AgentKeys : NeverCalled(a)
          /\ Returned => response.json.agents = Null
    /\ detectionMethod = Str("agents-only", 11)
       => /\ NeverCalled("ml")
          /\ Returned => response.json.ml = Null
    /\ (detectionMethod = Str("both", 4) /\ call["decision"] # "idle")
       => \A c \in Collectors : call[c] # "idle" /\ Len(sent[c]) = 1

\* a result was returned under method both with the classifier's output and
\* the four agents' entries in it
C19_Witness ==
    /\ Returned
    /\ detectionMethod = Str("both", 4)
    /\ response.json.ml # Null
    /\ response.json.agents # Null
    /\ \A c \in Collectors : Len(sent[c]) = 1

----------------------------------------------------------------------------
(* C20 *)

\* C20: within one request the handler calls each evidence source (the
\* classifier and the four agents) at most once; a source whose call failed
\* or gave nothing usable has still been called once only.
C20_AtMostOneCallPerSource ==
    \A c \in Collectors :
        /\ Len(sent[c]) <= 1
        /\ call[c] # "idle" => Len(sent[c]) = 1

\* the request has ended after the classifier call failed and an agent call
\* failed
C20_Witness ==
    /\ pc = "done"
    /\ call["ml"] = "rejected"
    /\ \E a \in AgentKeys : call[a] = "rejected"
    /\ \A c \in Collectors : Len(sent[c]) = 1

----------------------------------------------------------------------------
(* C21 *)

\* the handler waits for collector calls
Collecting == pc \in {"ml", "agents"}

\* C21: a collector call that never answers does not hold the request
\* for ever: whenever the handler waits for collector calls, it later leaves
\* the collecting stage, whether the calls answer or not.
C21_CollectingCompletes == Collecting ~> ~Collecting

----------------------------------------------------------------------------
(* C22 *)

\* the result as a function of the request body and of the answers to the
\* request's own calls, and of nothing else
ResultOfInputs ==
    [input |-> [text |-> BodyTextField,
                detectionMethod |-> detectionMethod,
                originalLanguage |-> DetectedLanguage,
                translatedText |-> NormalizedText],
     ml |-> IF UsesML THEN ResultML(callMLService(call["ml"], resp["ml"])) ELSE Null,
     agents |-> IF UsesAgents
                THEN [a \in AgentKeys |-> toAgentResult(a, safeJson(resp[a]))]
                ELSE Null,
     overall |-> Overall(parsedDecision(resp["decision"]))]

----------------------------------------------------------------------------
(* C23 *)

\* C23: the fusion step yields a Verdict whatever happens to the decision
\* call: a request whose decision call was issued ends with a returned
\* result, and when the decision call failed the Verdict is a fallback with
\* a risk among low, medium, high.
C23_FusionTotal ==
    (pc = "done" /\ call["decision"] # "idle")
    => /\ Returned
       /\ call["decision"] = "rejected" => response.json.overall.risk \in Risks

----------------------------------------------------------------------------
(* C24 *)

\* feedback was sent with a boolean `correct` and the returned result as
\* `analysis`
WellFormedFeedback ==
    /\ fb # NoFeedback
    /\ TypeOf(fb.payload.correct) = "boolean"
    /\ fb.payload.analysis = response.json

\* C24: feedback whose `correct` is a boolean and whose `analysis` is a
\* result the analyze endpoint returned, under any detection method, is
\* answered { ok: true } and never thrown.
C24_FeedbackAccepted ==
    WellFormedFeedback
    => /\ fb.answer # Thrown
       /\ fb.answer.status = 200
       /\ fb.answer.json = [ok |-> TRUE]

----------------------------------------------------------------------------
(* C25 *)

\* the detection call answered a translation and did not call it English
NonCanonical == Translated /\ DetectedLanguage # Str("en", 2)

\* the decision prompt has the section of the classifier
ClassifierInFusion == decisionUser.ml # Undef

\* C25: the decision prompt carries the instruction to downweight the
\* classifier exactly when the message was detected as not English and the
\* classifier's section is in the prompt; it does not carry it for an
\* English message, nor when detection failed and the text was left
\* untranslated.
C25_CaveatExactlyWhenTranslated ==
    decisionUser # Undef
    => (decisionUser.note.caveat <=> (NonCanonical /\ ClassifierInFusion))

----------------------------------------------------------------------------
(* C26 *)

\* the fixed names of the four agents
AgentNames ==
    [content |-> "Content Analysis Agent", link |-> "Link Security Agent",
     sender |-> "Sender Verification Agent", context |-> "Context Awareness Agent"]

\* the agent's answer, parsed or not, carries nothing under the key
Missing(a, f) == Nullish(Get(Parsed(a), f))

\* C26: a non-null agents field of a returned result has exactly the entries
\* content, link, sender and context, each with its own key and its fixed
\* name; an entry whose answer carries no signals or no features has the
\* empty list there, and one whose answer carries no rationale has the empty
\* string, whether the answer parsed or not; what the answer carries is
\* copied.
C26_FourEntriesWithDefaults ==
    (Returned /\ response.json.agents # Null)
    => /\ DOMAIN response.json.agents = {"content", "link", "sender", "context"}
       /\ \A a \in AgentKeys :
             LET e == response.json.agents[a]
             IN  /\ e.key = a
                 /\ e.name = AgentNames[a]
                 /\ e.signals = (IF Missing(a, "signals") THEN Arr(<<>>)
                                  ELSE Get(Parsed(a), "signals"))
                 /\ e.features = (IF Missing(a, "features") THEN Arr(<<>>)
                                   ELSE Get(Parsed(a), "features"))
                 /\ e.rationale = (IF Missing(a, "rationale") THEN Str("", 0)
                                    ELSE Get(Parsed(a), "rationale"))

\* a result was returned with one agent whose answer did not parse, one
\* whose answer carried only a score and one whose answer carried signals
C26_Witness ==
    /\ Returned
    /\ response.json.agents # Null
    /\ \E a, b, c \in AgentKeys :
          /\ Unparsable(a)
          /\ Answered(b) /\ Missing(b, "signals") /\ Missing(b, "rationale")
          /\ Answered(c) /\ ~Missing(c, "signals")

----------------------------------------------------------------------------
(* C27 *)

\* the parsed answer carries a value (not null) under the key
Present(a, f) == ~Missing(a, f)

\* the first of suspicionScore, score, confidence that the answer carries
FirstPresent(a) ==
    IF Present(a, "suspicionScore") THEN Get(Parsed(a), "suspicionScore")
    ELSE IF Present(a, "score") THEN Get(Parsed(a), "score")
    ELSE IF Present(a, "confidence") THEN Get(Parsed(a), "confidence")
    ELSE Undef

\* a number brought into [0,1]
Clamped(n) == IF n > 100 THEN 100 ELSE IF n < 0 THEN 0 ELSE n

----------------------------------------------------------------------------
(* C28 *)

\* the answer of the detection call, parsed
ParsedTranslation == safeJson(resp["translate"])

\* C28: once detectAndTranslate has returned: when the detection call
\* answered JSON with a non-empty translation, the normalized text is that
\* translation and the language is the answer's language, "unknown" when
\* the answer has none; in every other case (the call failed, the answer
\* does not parse, the translation is missing or empty) the language is
\* "unknown" and the normalized text is the request text.
C28_TranslationOrOriginal ==
    PastNormalizing
    => IF Translated
       THEN /\ tl.translated = Get(ParsedTranslation, "translation")
            /\ tl.language = (IF Nullish(Get(ParsedTranslation, "language"))
                               THEN Str("unknown", 7)
                               ELSE Get(ParsedTranslation, "language"))
       ELSE /\ tl.language = Str("unknown", 7)
            /\ tl.translated = BodyTextField

\* the language is "unknown" and the normalized text is a translation, not
\* the request text
C28_Witness ==
    /\ PastNormalizing
    /\ tl.language = Str("unknown", 7)
    /\ tl.translated = English
    /\ tl.translated # BodyTextField

----------------------------------------------------------------------------
(* C29 *)

\* the Verdict taken when the decision gives nothing structured
FallbackVerdict ==
    [risk |-> Str("medium", 6),
     confidence |-> Num(50),
     explanation |-> Str("Insufficient structured output; defaulted to medium risk.", 57)]

\* the text of the decision call is JSON, code fences aside
DecisionParses == resp["decision"].kind = "json"

\* the Verdict built from the fields of a parsed decision: the risk as it
\* is, the confidence clamped or absent, the explanation or ""
VerdictOf(d) ==
    [risk |-> Get(d, "risk"),
     confidence |-> IF Nullish(Get(d, "confidence")) THEN Undef
                    ELSE IF Get(d, "confidence").t = "num"
                    THEN Num(Clamped(Get(d, "confidence").n))
                    ELSE Null,
     explanation |-> IF Nullish(Get(d, "explanation")) THEN Str("", 0)
                     ELSE Get(d, "explanation")]

NoDecision == ~DecisionParses \/ resp["decision"].v = Null

====
